---- MODULE Spec2Model ----
(***************************************************************************)
(* Model of src/src/support.rs: `init` (window, GUI context, platform      *)
(* adapter, fonts, renderer) and `System::main_loop` (the closure handed   *)
(* to EventLoop::run, one action per match arm).                           *)
(*                                                                         *)
(* Two specifications:                                                     *)
(*   Spec      the event loop, starting from a System returned by init     *)
(*   SpecInit  the init routine, inputs drawn from bounded sets            *)
(***************************************************************************)
EXTENDS Integers, Sequences, FiniteSets, TLC

VARIABLES
    \* ---- main_loop ----
    pc,               \* "running" | "panicked" (an expect() failed) | "done" (loop left)
    control_flow,     \* *control_flow : "Poll" | "Exit"
    display_size,     \* imgui.io().display_size, <<w, h>> as f32 values
    last_frame,       \* let mut last_frame (an Instant, in ticks)
    delta_time,       \* imgui.io().delta_time as fed by update_delta_time
    redraw_pending,   \* the window has an outstanding request_redraw()
    trace,            \* calls made by the callback that ran last, in order
    lastEvent,        \* the event the callback ran for last
    lastArg,          \* its payload (new_size of Resized), else <<0, 0>>
    run,              \* value of `run` after app.update in the last redraw
    app_ret,          \* value app.handle_event returned last
    closed,           \* the CloseRequested arm has run
    \* ---- init ----
    ipc,              \* position in init
    title_in,         \* the argument `title`
    window_title,     \* the title given to WindowBuilder
    window_icon,      \* "icon" | "none"
    clipboard_backend,\* "backend" | "default"
    env_in,           \* the result of std::env::var
    dpi_mode,         \* HiDpiMode handed to attach_window
    attached,         \* platform.attach_window has run
    fonts,            \* fonts added to the atlas, in order
    display,          \* "none" | "display" | "failed"
    renderer,         \* "none" | "renderer" | "failed"
    system            \* "none" | "System" (init returned)

loopVars == <<pc, control_flow, display_size, last_frame, delta_time,
              redraw_pending, trace, lastEvent, lastArg, run, app_ret, closed>>
initVars == <<ipc, title_in, window_title, window_icon, clipboard_backend,
              env_in, dpi_mode, attached, fonts, display, renderer, system>>
vars == <<loopVars, initVars>>

----------------------------------------------------------------------------
(* Bounds *)
MaxTime == 2
MaxDim == 2
MaxTitleLen == 4
MaxEnvLen == 3

Times == 0..MaxTime
\* window dimensions delivered by Resized: small ones and the largest a
\* 16-bit window system reports
Dims == (0..MaxDim) \cup {65535}

\* events that reach the catch-all arm
OtherEvents == {"KeyboardInput", "CursorMoved", "RedrawEventsCleared"}

----------------------------------------------------------------------------
(* Helpers *)

Call(name, arg) == [call |-> name, arg |-> arg]

Names(t) == [i \in 1..Len(t) |-> t[i].call]

RECURSIVE Pow2(_)
Pow2(n) == IF n = 0 THEN 1 ELSE 2 * Pow2(n - 1)

RECURSIVE Log2(_)
Log2(n) == IF n < 2 THEN 0 ELSE 1 + Log2(n \div 2)

\* `x as f32` for an unsigned integer x: round to nearest, ties to even,
\* on a 24-bit significand
AsF32(n) ==
    IF n < Pow2(24) THEN n
    ELSE LET ulp == Pow2(Log2(n) - 23)
             q   == n \div ulp
             r   == n % ulp
         IN  IF 2 * r < ulp THEN q * ulp
             ELSE IF 2 * r > ulp THEN (q + 1) * ulp
             ELSE IF q % 2 = 0 THEN q * ulp ELSE (q + 1) * ulp

RECURSIVE Pow10(_)
Pow10(n) == IF n = 0 THEN 1 ELSE 10 * Pow10(n - 1)

\* all sequences over A of length at most n
RECURSIVE SeqsUpTo(_, _)
SeqsUpTo(A, n) ==
    IF n = 0 THEN {<<>>}
    ELSE LET shorter == SeqsUpTo(A, n - 1)
         IN  shorter \cup {Append(t, a) : t \in {u \in shorter : Len(u) = n - 1}, a \in A}

\* characters of a title: a letter, the separator, the dot
TitleChars == {"a", "/", "."}
Titles == SeqsUpTo(TitleChars, MaxTitleLen)

\* characters of the override variable: a digit, the point, a sign, a non-numeric
EnvChars == {"1", ".", "-", "x"}
EnvStrings == SeqsUpTo(EnvChars, MaxEnvLen)

\* an f64 as sign and magnitude in units of 10^-MaxEnvLen
F64(neg, num) == [neg |-> neg, num |-> num]
NoFactor == F64(FALSE, 0)

----------------------------------------------------------------------------
(* init *)

\* the pieces of s between separators, in order
RECURSIVE Segments(_)
Segments(s) ==
    IF \A i \in 1..Len(s) : s[i] # "/" THEN <<s>>
    ELSE LET k == CHOOSE i \in 1..Len(s) : s[i] = "/" /\ \A j \in 1..(i - 1) : s[j] # "/"
         IN  <<SubSeq(s, 1, k - 1)>> \o Segments(SubSeq(s, k + 1, Len(s)))

\* Path::components(): RootDir for a leading separator, CurDir for a leading
\* "." of a relative path, then ParentDir for "..", Normal for a name; empty
\* pieces and further "." pieces are dropped
RECURSIVE ComponentsOf(_, _)
ComponentsOf(segs, first) ==
    IF segs = <<>> THEN <<>>
    ELSE LET g    == Head(segs)
             rest == ComponentsOf(Tail(segs), FALSE)
         IN  IF g = <<>> THEN rest
             ELSE IF g = <<".">> THEN
                     (IF first THEN <<[kind |-> "CurDir", name |-> g]>> ELSE <<>>) \o rest
             ELSE IF g = <<".", ".">> THEN <<[kind |-> "ParentDir", name |-> g]>> \o rest
             ELSE <<[kind |-> "Normal", name |-> g]>> \o rest

Components(s) ==
    IF s = <<>> THEN <<>>
    ELSE IF s[1] = "/"
         THEN <<[kind |-> "RootDir", name |-> <<"/">>]>> \o ComponentsOf(Segments(s), FALSE)
         ELSE ComponentsOf(Segments(s), TRUE)

\* Path::file_name(): the last component if it is Normal
FileName(s) ==
    LET cs == Components(s)
    IN  IF cs # <<>> /\ cs[Len(cs)].kind = "Normal"
        THEN [some |-> TRUE, name |-> cs[Len(cs)].name]
        ELSE [some |-> FALSE, name |-> <<>>]

\* variant: a missing file name yields an empty title
DeriveTitle_NoFallback(t) == FileName(t).name

\* match Path::new(&title).file_name() { Some(f) => f.to_str().unwrap(), None => title }
DeriveTitle(t) ==
    LET f == FileName(t) IN IF f.some THEN f.name ELSE t

\* load_icon(): None when the image does not decode or the RGBA data is rejected
LoadIcon(outcome) == IF outcome = "ok" THEN "icon" ELSE "none"

\* variant: a missing icon is fatal
WindowStage_IconRequired(iconOutcome, displayOk) ==
    IF displayOk /\ iconOutcome = "ok" THEN "display" ELSE "panicked"

\* Display::new(..).expect("Failed to initialize display"); the icon is an Option
WindowStage(iconOutcome, displayOk) ==
    IF displayOk THEN "display" ELSE "panicked"

\* str::parse::<f64>() on the characters of EnvChars: an optional sign, digits,
\* an optional point, digits; at least one digit; nothing else
ParseF64(s) ==
    LET neg    == s # <<>> /\ s[1] = "-"
        body   == IF neg THEN Tail(s) ELSE s
        points == {i \in 1..Len(body) : body[i] = "."}
        p      == IF points = {} THEN Len(body) + 1 ELSE CHOOSE i \in points : TRUE
        ip     == SubSeq(body, 1, p - 1)
        fp     == SubSeq(body, p + 1, Len(body))
        digits == ip \o fp
        wellformed ==
            /\ Cardinality(points) <= 1
            /\ digits # <<>>
            /\ \A i \in 1..Len(digits) : digits[i] = "1"
        \* mantissa of the digits read left to right, then scaled by the
        \* number of fraction digits
        mant[i \in 0..Len(digits)] == IF i = 0 THEN 0 ELSE 10 * mant[i - 1] + 1
    IN  IF wellformed
        THEN [ok |-> TRUE, val |-> F64(neg, mant[Len(digits)] * Pow10(MaxEnvLen - Len(fp)))]
        ELSE [ok |-> FALSE, val |-> NoFactor]

\* the results of std::env::var
EnvValues ==
    {[kind |-> "NotPresent", str |-> <<>>], [kind |-> "NotUnicode", str |-> <<>>]}
    \cup {[kind |-> "Unicode", str |-> e] : e \in EnvStrings}

\* if let Ok(factor) = env::var(..) { match factor.parse::<f64>() { Ok(f) =>
\* Locked(f), Err(e) => panic!(..) } } else { HiDpiMode::Default }
DpiMode(env) ==
    IF env.kind = "Unicode"
    THEN LET r == ParseF64(env.str)
         IN  IF r.ok THEN [panic |-> FALSE, mode |-> "Locked", factor |-> r.val]
             ELSE [panic |-> TRUE, mode |-> "none", factor |-> NoFactor]
    ELSE [panic |-> FALSE, mode |-> "Default", factor |-> NoFactor]

----------------------------------------------------------------------------
(* main_loop: the closure passed to event_loop.run *)

\* state on entry to event_loop.run, with the System init returned
Init ==
    /\ pc = "running"
    /\ control_flow = "Poll"
    /\ display_size = <<1024, 768>>
    /\ last_frame = 0
    /\ delta_time = 0
    /\ redraw_pending = FALSE
    /\ trace = <<>>
    /\ lastEvent = "none"
    /\ lastArg = <<0, 0>>
    /\ run = TRUE
    /\ app_ret = FALSE
    /\ closed = FALSE
    /\ ipc = "returned"
    /\ title_in = <<"a">>
    /\ window_title = <<"a">>
    /\ window_icon = "icon"
    /\ clipboard_backend = "backend"
    /\ env_in = [kind |-> "NotPresent", str |-> <<>>]
    /\ dpi_mode = [mode |-> "Default", factor |-> NoFactor]
    /\ attached = TRUE
    /\ display = "display"
    /\ fonts = <<"Lucon.ttf", "mplus-1p-regular.ttf">>
    /\ renderer = "renderer"
    /\ system = "System"

\* Event::NewEvents(_)
NewEvents ==
    /\ pc = "running"
    /\ \E now \in Times :
          /\ now >= last_frame
          /\ delta_time' = now - last_frame
          /\ last_frame' = now
    /\ trace' = <<Call("Instant::now", "-"), Call("io.update_delta_time", "-")>>
    /\ lastEvent' = "NewEvents"
    /\ lastArg' = <<0, 0>>
    /\ UNCHANGED <<pc, control_flow, display_size, redraw_pending, run, app_ret, closed>>
    /\ UNCHANGED initVars

\* variant: the redraw is requested before the frame is prepared
MainEventsClearedCalls_RequestFirst(prepareOk) ==
    <<Call("window.request_redraw", "-"), Call("platform.prepare_frame", "-")>>

\* calls of the MainEventsCleared arm; prepare_frame(..).expect(..) panics on Err
MainEventsClearedCalls(prepareOk) ==
    IF prepareOk
    THEN <<Call("platform.prepare_frame", "-"), Call("window.request_redraw", "-")>>
    ELSE <<Call("platform.prepare_frame", "-")>>

\* Event::MainEventsCleared
MainEventsCleared ==
    /\ pc = "running"
    /\ \E prepareOk \in BOOLEAN :
          /\ trace' = MainEventsClearedCalls(prepareOk)
          /\ pc' = IF prepareOk THEN "running" ELSE "panicked"
          /\ redraw_pending' =
                IF \E i \in 1..Len(trace') : trace'[i].call = "window.request_redraw"
                THEN TRUE ELSE redraw_pending
    /\ lastEvent' = "MainEventsCleared"
    /\ lastArg' = <<0, 0>>
    /\ UNCHANGED <<control_flow, display_size, last_frame, delta_time, run, app_ret, closed>>
    /\ UNCHANGED initVars

\* variant: drag-and-drop is processed before the frame is built
RedrawSteps_DragDropFirst ==
    << Call("app.process_drag_drop", "-"),
       Call("imgui.frame", "-"),
       Call("app.update", "-"),
       Call("display.draw", "-"),
       Call("target.clear_color_srgb", "white"),
       Call("platform.prepare_render", "-"),
       Call("imgui.render", "-"),
       Call("renderer.render", "-"),
       Call("target.finish", "-") >>

\* the calls of the RedrawRequested arm, in program order
RedrawSteps ==
    << Call("imgui.frame", "-"),
       Call("app.update", "-"),
       Call("display.draw", "-"),
       Call("target.clear_color_srgb", "white"),
       Call("platform.prepare_render", "-"),
       Call("imgui.render", "-"),
       Call("renderer.render", "-"),
       Call("target.finish", "-"),
       Call("app.process_drag_drop", "-") >>

\* index of the first step named n
StepIndex(t, n) == CHOOSE i \in 1..Len(t) : t[i].call = n /\ \A j \in 1..(i-1) : t[j].call # n

\* the calls the arm gets through: expect() panics right after a failed
\* renderer.render or target.finish
RedrawCalls(renderOk, presentOk) ==
    IF ~renderOk THEN SubSeq(RedrawSteps, 1, StepIndex(RedrawSteps, "renderer.render"))
    ELSE IF ~presentOk THEN SubSeq(RedrawSteps, 1, StepIndex(RedrawSteps, "target.finish"))
    ELSE RedrawSteps

\* variant: the run flag is never inspected
ControlAfterUpdate_Never(cf, r) == cf

\* variant: loop control is rewritten on every redraw
ControlAfterUpdate_Reset(cf, r) == IF ~r THEN "Exit" ELSE "Poll"

\* let mut run = true; app.update(&mut run, ui); if !run { *control_flow = Exit }
ControlAfterUpdate(cf, r) == IF ~r THEN "Exit" ELSE cf

\* Event::RedrawRequested(_)
RedrawRequested ==
    /\ pc = "running"
    /\ \E r \in BOOLEAN, renderOk \in BOOLEAN, presentOk \in BOOLEAN :
          /\ run' = r
          /\ control_flow' = ControlAfterUpdate(control_flow, r)
          /\ trace' = RedrawCalls(renderOk, presentOk)
          /\ pc' = IF renderOk /\ presentOk THEN "running" ELSE "panicked"
    /\ redraw_pending' = FALSE
    /\ lastEvent' = "RedrawRequested"
    /\ lastArg' = <<0, 0>>
    /\ UNCHANGED <<display_size, last_frame, delta_time, app_ret, closed>>
    /\ UNCHANGED initVars

\* variant: the close request leaves loop control alone
CloseControl_Keep(cf) == cf

\* WindowEvent::CloseRequested => *control_flow = ControlFlow::Exit
CloseControl(cf) == "Exit"

\* Event::WindowEvent { event: WindowEvent::CloseRequested, .. }
CloseRequested ==
    /\ pc = "running"
    /\ control_flow' = CloseControl(control_flow)
    /\ closed' = TRUE
    /\ trace' = <<>>
    /\ lastEvent' = "CloseRequested"
    /\ lastArg' = <<0, 0>>
    /\ UNCHANGED <<pc, display_size, last_frame, delta_time, redraw_pending, run, app_ret>>
    /\ UNCHANGED initVars

\* variant: width and height exchanged
ResizedSize_Swapped(w, h) == <<AsF32(h), AsF32(w)>>

\* [new_size.width as f32, new_size.height as f32]
ResizedSize(w, h) == <<AsF32(w), AsF32(h)>>

\* Event::WindowEvent { event: WindowEvent::Resized(new_size), .. }
Resized ==
    /\ pc = "running"
    /\ \E w \in Dims, h \in Dims :
          /\ display_size' = ResizedSize(w, h)
          /\ lastArg' = <<w, h>>
    /\ trace' = <<>>
    /\ lastEvent' = "Resized"
    /\ UNCHANGED <<pc, control_flow, last_frame, delta_time, redraw_pending, run, app_ret, closed>>
    /\ UNCHANGED initVars

\* variant: the adapter sees the event whatever the application answered
DelegateCalls_Always(e, ret) ==
    <<Call("app.handle_event", e), Call("platform.handle_event", e)>>

\* if !app.handle_event(window, &event) { platform.handle_event(io, window, &event) }
DelegateCalls(e, ret) ==
    IF ret THEN <<Call("app.handle_event", e)>>
    ELSE <<Call("app.handle_event", e), Call("platform.handle_event", e)>>

\* event => { .. } : every event no earlier arm matched
Delegated ==
    /\ pc = "running"
    /\ \E e \in OtherEvents, ret \in BOOLEAN :
          /\ trace' = DelegateCalls(e, ret)
          /\ lastEvent' = e
          /\ app_ret' = ret
    /\ lastArg' = <<0, 0>>
    /\ UNCHANGED <<pc, control_flow, display_size, last_frame, delta_time, redraw_pending, run, closed>>
    /\ UNCHANGED initVars

\* The event source acting on ControlFlow::Exit: it delivers
\* Event::LoopDestroyed (which falls to the catch-all arm) and leaves the loop.
LoopDestroyed ==
    /\ pc = "running"
    /\ control_flow = "Exit"
    /\ \E ret \in BOOLEAN :
          /\ trace' = DelegateCalls("LoopDestroyed", ret)
          /\ app_ret' = ret
    /\ lastEvent' = "LoopDestroyed"
    /\ lastArg' = <<0, 0>>
    /\ pc' = "done"
    /\ UNCHANGED <<control_flow, display_size, last_frame, delta_time, redraw_pending, run, closed>>
    /\ UNCHANGED initVars

Next ==
    \/ NewEvents
    \/ MainEventsCleared
    \/ RedrawRequested
    \/ CloseRequested
    \/ Resized
    \/ Delegated
    \/ LoopDestroyed

Spec == Init /\ [][Next]_vars

----------------------------------------------------------------------------
(* Properties of main_loop *)

Count(t, n) == Cardinality({i \in 1..Len(t) : t[i].call = n})

\* every name of ns occurs exactly once in t, in the order of ns
Ordered(t, ns) ==
    /\ \A k \in 1..Len(ns) : Count(t, ns[k]) = 1
    /\ \A k \in 1..(Len(ns) - 1) : StepIndex(t, ns[k]) < StepIndex(t, ns[k + 1])

AppOrRenderCalls ==
    {"app.update", "renderer.render", "target.finish", "app.process_drag_drop",
     "app.handle_event", "platform.handle_event"}

\* C1 (as stated): once the CloseRequested callback has run, no
\* RedrawRequested callback runs any more.
C1_NoRedrawAfterClose ==
    closed => lastEvent # "RedrawRequested"

\* C1 (amended): once the CloseRequested callback has run, loop control is
\* Exit and stays Exit, and the CloseRequested callback itself calls neither
\* the application nor the renderer; a RedrawRequested event delivered
\* afterwards is still handled.
C1_CloseSetsExit ==
    /\ closed => control_flow = "Exit"
    /\ lastEvent = "CloseRequested" =>
          /\ closed
          /\ \A i \in 1..Len(trace) : trace[i].call \notin AppOrRenderCalls

C1_Witness ==
    /\ closed
    /\ lastEvent = "RedrawRequested"
    /\ pc = "running"
    /\ control_flow = "Exit"
    /\ Names(trace) = Names(RedrawSteps)

\* C2: a redraw that completes with the run flag cleared leaves loop control
\* at Exit and has still cleared, rendered, presented and then processed
\* drag-and-drop, all after app.update; a redraw that leaves the flag set
\* does not change loop control.
C2_RunFlag ==
    [][ (lastEvent' = "RedrawRequested" /\ pc' = "running") =>
           /\ ~run' =>
                 /\ control_flow' = "Exit"
                 /\ Ordered(trace', <<"app.update", "target.clear_color_srgb",
                                      "renderer.render", "target.finish",
                                      "app.process_drag_drop">>)
           /\ run' => control_flow' = control_flow ]_vars

C2_Witness ==
    /\ lastEvent = "RedrawRequested"
    /\ pc = "running"
    /\ ~run
    /\ ~closed
    /\ control_flow = "Exit"
    /\ Count(trace, "target.finish") = 1

\* C3: for an event of the catch-all arm, app.handle_event is the first call
\* and is made once; the adapter's handle_event is made for the same event
\* once if the application returned false and not at all if it returned true.
C3_Delegation ==
    lastEvent \in OtherEvents \cup {"LoopDestroyed"} =>
        /\ Len(trace) >= 1
        /\ trace[1] = Call("app.handle_event", lastEvent)
        /\ Count(trace, "app.handle_event") = 1
        /\ app_ret => Count(trace, "platform.handle_event") = 0
        /\ ~app_ret =>
              /\ Count(trace, "platform.handle_event") = 1
              /\ trace[2] = Call("platform.handle_event", lastEvent)

C3_Witness ==
    /\ lastEvent = "KeyboardInput"
    /\ ~app_ret
    /\ Len(trace) = 2
    /\ trace[2].call = "platform.handle_event"

\* C4: a Resized(W, H) callback leaves display_size = (W, H) and changes
\* nothing else: loop control, last_frame, the delta time, the pending
\* redraw and the loop's position are as before and no collaborator is called.
C4_Resize ==
    [][ lastEvent' = "Resized" =>
           /\ display_size' = lastArg'
           /\ control_flow' = control_flow
           /\ last_frame' = last_frame
           /\ delta_time' = delta_time
           /\ redraw_pending' = redraw_pending
           /\ pc' = pc
           /\ closed' = closed
           /\ trace' = <<>> ]_vars

C4_Witness ==
    /\ lastEvent = "Resized"
    /\ lastArg = <<65535, 1>>
    /\ display_size = <<65535, 1>>
    /\ control_flow = "Exit"

\* C7: a completed redraw made each of its steps once, in the order frame,
\* update, clear, prepare_render, render, finish, process_drag_drop;
\* process_drag_drop never precedes finish, and is absent when render or
\* finish panicked.
C7_RedrawOrder ==
    lastEvent = "RedrawRequested" =>
        /\ pc = "running" =>
              Ordered(trace, <<"imgui.frame", "app.update", "target.clear_color_srgb",
                               "platform.prepare_render", "renderer.render",
                               "target.finish", "app.process_drag_drop">>)
        /\ \A i \in 1..Len(trace) :
              trace[i].call = "app.process_drag_drop" =>
                  \E j \in 1..(i - 1) : trace[j].call = "target.finish"
        /\ pc = "panicked" => Count(trace, "app.process_drag_drop") = 0

C7_Witness ==
    /\ lastEvent = "RedrawRequested"
    /\ pc = "panicked"
    /\ trace[Len(trace)].call = "target.finish"

\* C8: a MainEventsCleared callback that completes prepared the frame and
\* then requested the redraw; request_redraw is called only there and only
\* right after prepare_frame; when prepare_frame fails nothing is requested.
C8_PrepareThenRequest ==
    /\ [](lastEvent = "MainEventsCleared" /\ pc = "running" =>
             /\ Names(trace) = <<"platform.prepare_frame", "window.request_redraw">>
             /\ redraw_pending)
    /\ [](lastEvent = "MainEventsCleared" /\ pc = "panicked" =>
             Count(trace, "window.request_redraw") = 0)
    /\ [](\A i \in 1..Len(trace) :
             trace[i].call = "window.request_redraw" =>
                 /\ lastEvent = "MainEventsCleared"
                 /\ i > 1
                 /\ trace[i - 1].call = "platform.prepare_frame")
    /\ [][ (~redraw_pending /\ redraw_pending') =>
              (lastEvent' = "MainEventsCleared" /\ pc' = "running") ]_vars

C8_Witness ==
    /\ lastEvent = "MainEventsCleared"
    /\ pc = "running"
    /\ redraw_pending
    /\ Len(trace) = 2

\* C10: loop control turns to Exit only in a CloseRequested callback or in a
\* redraw whose app.update cleared the run flag, and no callback takes it
\* away from Exit.
C10_ExitTerminal ==
    [][ /\ control_flow = "Exit" => control_flow' = "Exit"
        /\ (control_flow # "Exit" /\ control_flow' = "Exit") =>
              \/ lastEvent' = "CloseRequested"
              \/ (lastEvent' = "RedrawRequested" /\ ~run') ]_vars

C10_Witness ==
    /\ control_flow = "Exit"
    /\ lastEvent = "RedrawRequested"
    /\ run
    /\ pc = "running"

----------------------------------------------------------------------------
(* init, step by step *)

InitI ==
    /\ ipc = "start"
    /\ title_in \in Titles
    /\ window_title = <<>>
    /\ window_icon = "none"
    /\ clipboard_backend = "default"
    /\ env_in = [kind |-> "unread", str |-> <<>>]
    /\ dpi_mode = [mode |-> "none", factor |-> NoFactor]
    /\ attached = FALSE
    /\ fonts = <<>>
    /\ display = "none"
    /\ renderer = "none"
    /\ system = "none"
    /\ pc = "init"
    /\ control_flow = "Poll"
    /\ display_size = <<0, 0>>
    /\ last_frame = 0
    /\ delta_time = 0
    /\ redraw_pending = FALSE
    /\ trace = <<>>
    /\ lastEvent = "none"
    /\ lastArg = <<0, 0>>
    /\ run = TRUE
    /\ app_ret = FALSE
    /\ closed = FALSE

\* title, event loop, WindowBuilder with title, size and icon, Display::new
InitWindow ==
    /\ ipc = "start"
    /\ window_title' = DeriveTitle(title_in)
    /\ \E iconOutcome \in {"ok", "decode_failed", "rgba_rejected"}, displayOk \in BOOLEAN :
          /\ window_icon' = LoadIcon(iconOutcome)
          /\ display' = IF displayOk THEN "display" ELSE "failed"
          /\ ipc' = WindowStage(iconOutcome, displayOk)
    /\ UNCHANGED <<title_in, clipboard_backend, env_in, dpi_mode, attached, fonts,
                   renderer, system>>
    /\ UNCHANGED loopVars

\* Context::create, set_ini_filename(None), the clipboard backend if there is one
InitImgui ==
    /\ ipc = "display"
    /\ \E available \in BOOLEAN :
          clipboard_backend' = IF available THEN "backend" ELSE "default"
    /\ ipc' = "imgui"
    /\ UNCHANGED <<title_in, window_title, window_icon, env_in, dpi_mode, attached,
                   fonts, display, renderer, system>>
    /\ UNCHANGED loopVars

\* WinitPlatform::init, the DPI mode, platform.attach_window
AttachPlatform ==
    /\ ipc = "imgui"
    /\ \E env \in EnvValues :
          LET d == DpiMode(env)
          IN  /\ env_in' = env
              /\ dpi_mode' = [mode |-> d.mode, factor |-> d.factor]
              /\ attached' = ~d.panic
              /\ ipc' = IF d.panic THEN "panicked" ELSE "platform"
    /\ UNCHANGED <<title_in, window_title, window_icon, clipboard_backend, fonts,
                   display, renderer, system>>
    /\ UNCHANGED loopVars

\* the two embedded fonts, in order, and the style scaling
LoadFonts ==
    /\ ipc = "platform"
    /\ fonts' = <<"Lucon.ttf", "mplus-1p-regular.ttf">>
    /\ ipc' = "fonts"
    /\ UNCHANGED <<title_in, window_title, window_icon, clipboard_backend, env_in,
                   dpi_mode, attached, display, renderer, system>>
    /\ UNCHANGED loopVars

\* Renderer::init(..).expect("Failed to initialize renderer"); return System { .. }
InitRenderer ==
    /\ ipc = "fonts"
    /\ \E rendererOk \in BOOLEAN :
          /\ renderer' = IF rendererOk THEN "renderer" ELSE "failed"
          /\ system' = IF rendererOk THEN "System" ELSE "none"
          /\ ipc' = IF rendererOk THEN "returned" ELSE "panicked"
    /\ UNCHANGED <<title_in, window_title, window_icon, clipboard_backend, env_in,
                   dpi_mode, attached, fonts, display>>
    /\ UNCHANGED loopVars

NextI ==
    \/ InitWindow
    \/ InitImgui
    \/ AttachPlatform
    \/ LoadFonts
    \/ InitRenderer

SpecInit == InitI /\ [][NextI]_vars

----------------------------------------------------------------------------
(* Properties of init *)

\* the pieces <<i, j>> of s that are a final path component: a whole piece
\* between separators that is a name (not ".", not ".."), followed only by
\* separators and single dots
FinalComponents(s) ==
    {ij \in (1..Len(s)) \X (1..Len(s)) :
        LET i == ij[1]
            j == ij[2]
        IN  /\ i <= j
            /\ \A k \in i..j : s[k] # "/"
            /\ i = 1 \/ s[i - 1] = "/"
            /\ j = Len(s) \/ s[j + 1] = "/"
            /\ SubSeq(s, i, j) \notin {<<".">>, <<".", ".">>}
            /\ \A k \in (j + 1)..Len(s) : s[k] \in {"/", "."}
            /\ \A k \in (j + 1)..(Len(s) - 1) : ~(s[k] = "." /\ s[k + 1] = ".")}

\* C5: the window title is the final path component of the input when it has
\* one and the input itself when it has none ("", "..", "a/.."); an input
\* without separators is its own title.
C5_TitleDerivation ==
    ipc # "start" =>
        LET finals == FinalComponents(title_in)
        IN  /\ \A ij \in finals : window_title = SubSeq(title_in, ij[1], ij[2])
            /\ finals = {} => window_title = title_in
            /\ (\A k \in 1..Len(title_in) : title_in[k] # "/") => window_title = title_in

C5_Witness ==
    /\ ipc = "returned"
    /\ title_in = <<".", "/", "a", "/">>
    /\ window_title = <<"a">>

\* the value a decimal string denotes, digit by digit, in units of 10^-MaxEnvLen
IsDecimalString(s) ==
    /\ \E i \in 1..Len(s) : s[i] = "1"
    /\ \A i \in 1..Len(s) : s[i] \in {"1", ".", "-"}
    /\ \A i \in 2..Len(s) : s[i] # "-"
    /\ Cardinality({i \in 1..Len(s) : s[i] = "."}) <= 1

\* C6 (as stated): a valid decimal string gives a locked factor; a variable
\* that is set to anything else aborts init before attach_window and no
\* System is returned; an absent variable gives the default mode.
C6_DpiOverride ==
    env_in.kind # "unread" =>
        /\ (env_in.kind = "Unicode" /\ IsDecimalString(env_in.str)) =>
              /\ attached
              /\ dpi_mode.mode = "Locked"
              /\ dpi_mode.factor.neg = (env_in.str[1] = "-")
              /\ dpi_mode.factor.num > 0
        /\ (env_in.kind # "NotPresent"
              /\ ~(env_in.kind = "Unicode" /\ IsDecimalString(env_in.str))) =>
              /\ ipc = "panicked"
              /\ ~attached
              /\ system = "none"
        /\ env_in.kind = "NotPresent" =>
              /\ attached
              /\ dpi_mode.mode = "Default"

\* C9: init returns exactly a fully initialized System; a failed display or
\* renderer leaves it panicked with nothing returned; the only steps that
\* panic are a failed display, a failed renderer and an unparsable override,
\* so a missing icon or clipboard backend never stops init.
C9_InitErrorClasses ==
    /\ []((display = "failed" \/ renderer = "failed") =>
             (ipc = "panicked" /\ system = "none"))
    /\ [](system = "System" <=> ipc = "returned")
    /\ [](system = "System" =>
             /\ display = "display"
             /\ renderer = "renderer"
             /\ attached
             /\ dpi_mode.mode \in {"Locked", "Default"}
             /\ Len(fonts) = 2)
    /\ [][ (ipc # "panicked" /\ ipc' = "panicked") =>
              \/ display' = "failed"
              \/ renderer' = "failed"
              \/ (env_in'.kind = "Unicode" /\ ~attached') ]_vars
    /\ [][ (ipc = "start" /\ display' = "display") =>
              (ipc' = "display" /\ window_icon' \in {"icon", "none"}) ]_vars
    /\ [][ ipc = "display" =>
              (ipc' = "imgui" /\ clipboard_backend' \in {"backend", "default"}) ]_vars

C9_Witness ==
    /\ system = "System"
    /\ window_icon = "none"
    /\ clipboard_backend = "default"

====
